---- MODULE Spec2Model ----
(***************************************************************************)
(* Model of src/components/audio-feedback.js: the volume extraction and    *)
(* smoothing pipeline, the quiet-avatar throttling of                      *)
(* networked-audio-analyser, local-audio-analyser and mic-button.          *)
(*                                                                         *)
(* Volumes are JavaScript doubles in the source.  They are modelled in     *)
(* fixed point: an integer v stands for the volume v / ONE.  NaN is a      *)
(* value of its own, and every comparison with it is false, as in          *)
(* JavaScript.  JavaScript's undefined is a value of its own as well.      *)
(***************************************************************************)
EXTENDS Integers, Sequences, FiniteSets, TLC

\* ------------------------------------------------------------ bounds
\* Timestamps handed to tick are k * DISABLE_GRACE_PERIOD_MS + s,
\* k \in 0..MaxEpoch, s \in 0..MaxSlack.
MaxEpoch == 2
MaxSlack == 3
\* Longest waveform buffer handed to getVolume as a pure function.
MaxLen == 3
\* Number of waveforms above the noise floor the audio source delivers.
MaxSpeech == 2
\* The same for the microphone the local analyser reads.
MaxLocalSpeech == 1
\* Number of local-audio-analyser ticks that may be suspended at their await.
MaxPending == 2
\* Configured minScale and maxScale are k / 2 for k \in 0..MaxScale.
MaxScale == 4
\* World distances between the entity and the player camera are 5 * k for
\* k \in 0..MaxDistance.
MaxDistance == 3

\* ------------------------------------------------------------ constants
\* Fixed-point scale: the integer ONE stands for the volume 1.0.
ONE == 100000
\* const DISABLE_AT_VOLUME_THRESHOLD = 0.00001
DISABLE_AT_VOLUME_THRESHOLD == ONE \div 100000
\* const DISABLE_GRACE_PERIOD_MS = 10000
DISABLE_GRACE_PERIOD_MS == 10000
\* const MIN_VOLUME_THRESHOLD = 0.01
MIN_VOLUME_THRESHOLD == ONE \div 100
\* analyser.fftSize = 32; frequencyBinCount is half of it
fftSize == 32
frequencyBinCount == fftSize \div 2

\* JavaScript's undefined (a timestamp that was not passed, a field never set)
Undefined == -1
\* JavaScript's NaN
NaN == -2

\* JavaScript truthiness of a number-or-undefined: undefined, NaN and 0 are falsy.
Truthy(x) == x # Undefined /\ x # NaN /\ x # 0

\* a < b on doubles: false as soon as one side is NaN
Lt(a, b) == a # NaN /\ b # NaN /\ a < b

\* ------------------------------------------------------------ getVolume
RECURSIVE IsqrtFrom(_, _, _)
\* the largest r in lo..hi with r * r <= n (bisection); the midpoint is bound
\* as a value, so that it is computed once at each step
IsqrtFrom(n, lo, hi) ==
  IF lo >= hi THEN lo
  ELSE CHOOSE r \in {IF mid * mid <= n THEN IsqrtFrom(n, mid, hi)
                     ELSE IsqrtFrom(n, lo, mid - 1) :
                     mid \in {(lo + hi + 1) \div 2}} : TRUE

\* floor of the square root
Isqrt(n) ==
  CHOOSE r \in {IsqrtFrom(v, 0, IF v < 46340 THEN v ELSE 46340) : v \in {n}} : TRUE

RECURSIVE SumSquares(_, _)
\* the loop of getVolume, with the amplitudes still multiplied by 128:
\* sum over i of (levels[i] - 128)^2
SumSquares(levels, i) ==
  IF i > Len(levels) THEN 0
  ELSE CHOOSE sum \in {(levels[j] - 128) * (levels[j] - 128) + SumSquares(levels, j + 1) :
                       j \in {i}} : TRUE

\* Math.sqrt(sum / levels.length) in fixed point; 0 / 0 is NaN.
\* With S the sum of squares and N the length, sqrt(S / N) / 128 * ONE is
\* computed as floor(50 * sqrt(S / N)) * (ONE / 128) / 50, and
\* ONE / 128 / 50 = 78125 / 5000.  The noise floor 0.01 is 50 * 1.28 = 64 on
\* that scale, a whole number, so the floor decides the comparison exactly.
Rms(levels) ==
  IF Len(levels) = 0 THEN NaN
  ELSE (Isqrt((SumSquares(levels, 1) * 2500) \div Len(levels)) * 78125) \div 5000

\* mutant: the RMS returned without the noise floor
getVolumeNoFloor(levels) ==
  Rms(levels)

\* currVolume < MIN_VOLUME_THRESHOLD ? 0 : currVolume
getVolume(levels) ==
  CHOOSE v \in {IF Lt(currVolume, MIN_VOLUME_THRESHOLD) THEN 0 ELSE currVolume :
                currVolume \in {Rms(levels)}} : TRUE

\* smoothing * immediateVolume + (1 - smoothing) * prevVolume, smoothing = 0.3
Smooth(imm, prev) ==
  IF imm = NaN \/ prev = NaN THEN NaN ELSE (3 * imm + 7 * prev) \div 10

\* ------------------------------------------------------------ state
VARIABLES
  \* networked-audio-analyser
  volume,            \* this.volume
  prevVolume,        \* this.prevVolume
  immediateVolume,   \* this.immediateVolume
  lastSeenVolume,    \* this.lastSeenVolume (Undefined until first recorded)
  avatarIsQuiet,     \* this.avatarIsQuiet: "undefined", "false" or "true"
  analyser,          \* whether this.analyser is set
  levels,            \* this.levels
  scheduled,         \* callbacks the frame scheduler holds for group "audio-analyser"
  removed,           \* whether remove() has run
  now,               \* timestamp of the latest frame
  call,              \* the latest call into the component
  didRead,           \* whether that call read the waveform (getByteTimeDomainData)
  speech,            \* waveforms above the noise floor read so far
  ran,               \* whether the scheduler has invoked a callback in the latest frame
  seenAt,            \* history: timestamp of the frame of the latest update, on either
                     \* path, that found the volume at or above the threshold
  \* local-audio-analyser
  subscribers,       \* this.subscribers
  lStream,           \* this.stream: 0 for null/undefined, 1 for a media stream
  lAnalyser,         \* this.analyser: 0 for null/undefined, 1 for an analyser
  lLevels,           \* this.levels
  lVolume,           \* this.volume
  lPrevVolume,       \* this.prevVolume
  lImmediateVolume,  \* this.immediateVolume
  pending,           \* ticks suspended at await getMediaStream
  lCall,             \* the latest call into the system or the mic-button
  \* mic-button
  loudest,           \* this.loudest
  prevImage,         \* this.prevImage
  decayingVolume,    \* this.decayingVolume
  image,             \* the image of the icon-button attribute ("" before the first set)
  iconSet,           \* whether the latest tick of the mic button called setAttribute
  \* scale-audio-feedback
  minScale,          \* this.data.minScale
  maxScale,          \* this.data.maxScale
  scale              \* object3D.scale as set by tick (Undefined before)

netFields == <<volume, prevVolume, immediateVolume, lastSeenVolume, avatarIsQuiet, levels,
              seenAt>>
netVars == <<volume, prevVolume, immediateVolume, lastSeenVolume, avatarIsQuiet,
             analyser, levels, scheduled, removed, now, call, didRead, ran, seenAt>>
localFields == <<lStream, lAnalyser, lLevels, lVolume, lPrevVolume, lImmediateVolume>>
localVars == <<subscribers, lStream, lAnalyser, lLevels, lVolume, lPrevVolume,
               lImmediateVolume, pending, lCall>>
micVars == <<loudest, prevImage, decayingVolume, image, iconSet>>
scaleVars == <<minScale, maxScale, scale>>
vars == <<netVars, speech, localVars, micVars, scaleVars>>

\* timestamps the frame loop passes to tick
Times == {k * DISABLE_GRACE_PERIOD_MS + s : k \in 0..MaxEpoch, s \in 0..MaxSlack}

\* sample bytes the audio graph delivers: silence, noise below the floor, speech
SampleBytes == {128, 130}
\* the waveforms of frequencyBinCount samples the audio graph delivers
AllWaveForms == {[i \in 1..frequencyBinCount |-> b] : b \in SampleBytes}
\* silence: every sample at the centre, 128
SilentWaveForms == {[i \in 1..frequencyBinCount |-> 128]}
\* what getByteTimeDomainData can write into this.levels of the networked analyser
WaveForms == IF speech < MaxSpeech THEN AllWaveForms ELSE SilentWaveForms
\* what getByteTimeDomainData can write into this.levels of the local analyser
LocalWaveForms == IF speech < MaxLocalSpeech THEN AllWaveForms ELSE SilentWaveForms

\* the count of waveforms above the noise floor after one more is read with the
\* volume imm; the count stops at MaxSpeech
Heard(count, imm) ==
  IF imm = 0 \/ count >= MaxSpeech THEN count ELSE count + 1

\* ------------------------------------------------------------ networked-audio-analyser
NetFresh ==
  /\ volume = 0
  /\ prevVolume = 0
  /\ immediateVolume = 0
  /\ lastSeenVolume = Undefined
  /\ avatarIsQuiet = "undefined"
  /\ scheduled = {"_updateAnalysis"}
  /\ removed = FALSE
  /\ now = 0
  /\ call = "init"
  /\ didRead = FALSE
  /\ ran = FALSE
  /\ seenAt = Undefined

NetInit ==
  /\ NetFresh
  /\ analyser = FALSE
  /\ levels = << >>

\* mutant: the grace period left out of the comparison
GraceElapsedNoPeriod(t, lsv) ==
  Truthy(t) /\ Truthy(lsv) /\ lsv < t

\* mutant: the test for a timestamp inverted into an escape (!t || ...)
GraceElapsedAnyT(t, lsv) ==
  Truthy(lsv) /\ (~Truthy(t) \/ lsv < t - DISABLE_GRACE_PERIOD_MS)

\* mutant: a missing lastSeenVolume defaulted to 0 ((this.lastSeenVolume || 0) < ...)
GraceElapsedNoSeen(t, lsv) ==
  Truthy(t) /\ (IF Truthy(lsv) THEN lsv ELSE 0) < t - DISABLE_GRACE_PERIOD_MS

\* t && this.lastSeenVolume && this.lastSeenVolume < t - DISABLE_GRACE_PERIOD_MS
GraceElapsed(t, lsv) ==
  Truthy(t) /\ Truthy(lsv) /\ lsv < t - DISABLE_GRACE_PERIOD_MS

\* mutant: the timestamp is recorded only while none is recorded yet
\* (if (t && !this.lastSeenVolume))
UpdateAnalysisFirstSeen(t, data) ==
  IF ~analyser
  THEN /\ UNCHANGED <<netFields, speech>>
       /\ didRead' = FALSE
  ELSE \E imm \in {getVolume(data)} : \E vol \in {Smooth(imm, prevVolume)} :
          /\ levels' = data
          /\ didRead' = TRUE
          /\ speech' = Heard(speech, imm)
          /\ immediateVolume' = imm
          /\ volume' = vol
          /\ prevVolume' = vol
          /\ IF Lt(vol, DISABLE_AT_VOLUME_THRESHOLD)
             THEN /\ avatarIsQuiet' = IF GraceElapsed(t, lastSeenVolume)
                                      THEN "true" ELSE avatarIsQuiet
                  /\ UNCHANGED <<lastSeenVolume, seenAt>>
             ELSE /\ lastSeenVolume' = IF Truthy(t) /\ ~Truthy(lastSeenVolume) THEN t
                                       ELSE lastSeenVolume
                  /\ avatarIsQuiet' = "false"
                  /\ seenAt' = IF t = Undefined THEN now ELSE t

\* mutant: avatarIsQuiet is cleared only when a timestamp is passed
\* (this.avatarIsQuiet = false inside if (t))
UpdateAnalysisTickClears(t, data) ==
  IF ~analyser
  THEN /\ UNCHANGED <<netFields, speech>>
       /\ didRead' = FALSE
  ELSE \E imm \in {getVolume(data)} : \E vol \in {Smooth(imm, prevVolume)} :
          /\ levels' = data
          /\ didRead' = TRUE
          /\ speech' = Heard(speech, imm)
          /\ immediateVolume' = imm
          /\ volume' = vol
          /\ prevVolume' = vol
          /\ IF Lt(vol, DISABLE_AT_VOLUME_THRESHOLD)
             THEN /\ avatarIsQuiet' = IF GraceElapsed(t, lastSeenVolume)
                                      THEN "true" ELSE avatarIsQuiet
                  /\ UNCHANGED <<lastSeenVolume, seenAt>>
             ELSE /\ lastSeenVolume' = IF Truthy(t) THEN t ELSE lastSeenVolume
                  /\ avatarIsQuiet' = IF Truthy(t) THEN "false" ELSE avatarIsQuiet
                  /\ seenAt' = IF t = Undefined THEN now ELSE t

\* _updateAnalysis(t), the analyser delivering `data`
UpdateAnalysis(t, data) ==
  IF ~analyser
  THEN /\ UNCHANGED <<netFields, speech>>
       /\ didRead' = FALSE
  ELSE \E imm \in {getVolume(data)} : \E vol \in {Smooth(imm, prevVolume)} :
          /\ levels' = data
          /\ didRead' = TRUE
          /\ speech' = Heard(speech, imm)
          /\ immediateVolume' = imm
          /\ volume' = vol
          /\ prevVolume' = vol
          /\ IF Lt(vol, DISABLE_AT_VOLUME_THRESHOLD)
             THEN /\ avatarIsQuiet' = IF GraceElapsed(t, lastSeenVolume)
                                      THEN "true" ELSE avatarIsQuiet
                  /\ UNCHANGED <<lastSeenVolume, seenAt>>
             ELSE /\ lastSeenVolume' = IF Truthy(t) THEN t ELSE lastSeenVolume
                  /\ avatarIsQuiet' = "false"
                  /\ seenAt' = IF t = Undefined THEN now ELSE t

\* _runScheduledWork()
RunScheduledWork(data) ==
  IF avatarIsQuiet = "true"
  THEN UpdateAnalysis(Undefined, data)
  ELSE UNCHANGED <<netFields, speech>> /\ didRead' = FALSE

\* the sound-source-set listener of init
SoundSourceSet ==
  /\ analyser' = TRUE
  /\ levels' = [i \in 1..frequencyBinCount |-> 0]
  /\ call' = "sound-source-set"
  /\ didRead' = FALSE
  /\ UNCHANGED <<volume, prevVolume, immediateVolume, lastSeenVolume, avatarIsQuiet,
                 scheduled, removed, now, speech, ran, seenAt, localVars, micVars,
                 scaleVars>>

\* mutant: tick without its test of avatarIsQuiet
TickAlways(t) ==
  /\ ~removed
  /\ t >= now
  /\ now' = t
  /\ ran' = FALSE
  /\ call' = "tick"
  /\ \E data \in WaveForms : UpdateAnalysis(t, data)
  /\ UNCHANGED <<analyser, scheduled, removed, localVars, micVars, scaleVars>>

\* tick(t)
Tick(t) ==
  /\ ~removed
  /\ t >= now
  /\ now' = t
  /\ ran' = FALSE
  /\ call' = "tick"
  /\ IF avatarIsQuiet # "true"
     THEN \E data \in WaveForms : UpdateAnalysis(t, data)
     ELSE UNCHANGED <<netFields, speech>> /\ didRead' = FALSE
  /\ UNCHANGED <<analyser, scheduled, removed, localVars, micVars, scaleVars>>

\* remove()
Remove ==
  /\ ~removed
  /\ removed' = TRUE
  /\ scheduled' = scheduled \ {"_runScheduledWork"}
  /\ call' = "remove"
  /\ didRead' = FALSE
  /\ UNCHANGED <<netFields, analyser, now, speech, ran, localVars, micVars, scaleVars>>

\* the frame scheduler calls a callback it holds, with no argument, at most
\* one callback of the group in a frame; the frame loop calls tick once in
\* every frame, so that a frame lasts from one tick to the next
Invoke(cb, data) ==
  IF cb = "_updateAnalysis" THEN UpdateAnalysis(Undefined, data)
  ELSE RunScheduledWork(data)

SchedulerRun ==
  /\ ~ran
  /\ ran' = TRUE
  /\ \E cb \in scheduled : \E data \in WaveForms : Invoke(cb, data)
  /\ call' = "scheduled"
  /\ UNCHANGED <<analyser, scheduled, removed, now, localVars, micVars, scaleVars>>

\* a frame of the frame loop after remove(): tick is no longer called (no
\* timestamp reaches the component), the scheduler still runs
Frame ==
  /\ removed
  /\ ran
  /\ ran' = FALSE
  /\ UNCHANGED <<netFields, analyser, scheduled, removed, now, call, didRead, speech,
                 localVars, micVars, scaleVars>>

NetNext ==
  \/ SoundSourceSet
  \/ \E t \in Times : Tick(t)
  \/ Frame
  \/ SchedulerRun
  \/ Remove

\* ------------------------------------------------------------ local-audio-analyser
LocalInit ==
  /\ subscribers = << >>
  /\ lStream = 0
  /\ lAnalyser = 0
  /\ lLevels = << >>
  /\ lVolume = 0
  /\ lPrevVolume = 0
  /\ lImmediateVolume = 0
  /\ pending = 0
  /\ lCall = "init"

\* listeners of the local analyser
Listeners == {"mic-button", "camera"}

\* this.subscribers.indexOf(ii): 0 stands for -1, positions count from 1
IndexOf(seq, ii) ==
  IF \E i \in 1..Len(seq) : seq[i] = ii
  THEN CHOOSE i \in 1..Len(seq) : seq[i] = ii /\ \A j \in 1..(i - 1) : seq[j] # ii
  ELSE 0

\* this.subscribers.splice(index, 1)
Splice(seq, index) ==
  [i \in 1..(Len(seq) - 1) |-> IF i < index THEN seq[i] ELSE seq[i + 1]]

\* mutant: subscribe without its indexOf test
subscribeAlways(subs, ii) ==
  Append(subs, ii)

\* subscribe(ii)
subscribe(subs, ii) ==
  IF IndexOf(subs, ii) = 0 THEN Append(subs, ii) ELSE subs

\* unsubscribe(ii)
unsubscribe(subs, ii) ==
  LET index == IndexOf(subs, ii)
  IN IF index # 0 THEN Splice(subs, index) ELSE subs

\* the end of tick (lines 137-143) on the stream and analyser bound by then
LocalAnalyse(stream, an, data) ==
  IF an = 0 \/ stream = 0
  THEN UNCHANGED <<lLevels, lVolume, lPrevVolume, lImmediateVolume, speech>>
  ELSE \E imm \in {getVolume(data)} : \E vol \in {Smooth(imm, lPrevVolume)} :
          /\ lLevels' = data
          /\ lImmediateVolume' = imm
          /\ lVolume' = vol
          /\ lPrevVolume' = vol
          /\ speech' = Heard(speech, imm)

\* mutant: tick resets the volumes when it has nothing to analyse
LocalTickReset(adapter) ==
  /\ lCall' = "tick"
  /\ IF ~adapter
     THEN UNCHANGED <<localFields, pending, speech>>
     ELSE IF Len(subscribers) = 0
     THEN /\ lStream' = 0
          /\ lAnalyser' = 0
          /\ lVolume' = 0
          /\ lPrevVolume' = 0
          /\ lImmediateVolume' = 0
          /\ UNCHANGED <<lLevels, speech, pending>>
     ELSE IF lStream = 0
     THEN /\ pending < MaxPending
          /\ pending' = pending + 1
          /\ UNCHANGED <<localFields, speech>>
     ELSE /\ \E data \in LocalWaveForms : LocalAnalyse(lStream, lAnalyser, data)
          /\ UNCHANGED <<lStream, lAnalyser, pending>>
  /\ UNCHANGED <<subscribers, micVars, netVars, scaleVars>>

\* tick(), up to its return or to its await; `adapter` is whether
\* NAF.connection.adapter is set when it is called
LocalTick(adapter) ==
  /\ lCall' = "tick"
  /\ IF ~adapter
     THEN UNCHANGED <<localFields, pending, speech>>
     ELSE IF Len(subscribers) = 0
     THEN /\ lStream' = 0
          /\ lAnalyser' = 0
          /\ LocalAnalyse(0, 0, lLevels)
          /\ UNCHANGED pending
     ELSE IF lStream = 0
     THEN /\ pending < MaxPending
          /\ pending' = pending + 1
          /\ UNCHANGED <<localFields, speech>>
     ELSE /\ \E data \in LocalWaveForms : LocalAnalyse(lStream, lAnalyser, data)
          /\ UNCHANGED <<lStream, lAnalyser, pending>>
  /\ UNCHANGED <<subscribers, micVars, netVars, scaleVars>>

\* tick() from its await on: getMediaStream resolved to `got` (0 for no stream)
LocalResume(got) ==
  /\ pending > 0
  /\ pending' = pending - 1
  /\ lCall' = "resume"
  /\ lStream' = got
  /\ IF got = 0
     THEN UNCHANGED <<lAnalyser, lLevels, lVolume, lPrevVolume, lImmediateVolume, speech>>
     ELSE /\ lAnalyser' = 1
          /\ \E data \in LocalWaveForms : LocalAnalyse(got, 1, data)
  /\ UNCHANGED <<subscribers, micVars, netVars, scaleVars>>

\* another listener of the system subscribes
Subscribe(ii) ==
  /\ subscribers' = subscribe(subscribers, ii)
  /\ lCall' = "subscribe"
  /\ UNCHANGED <<localFields, pending, speech, micVars, netVars, scaleVars>>

\* another listener of the system unsubscribes
Unsubscribe(ii) ==
  /\ subscribers' = unsubscribe(subscribers, ii)
  /\ lCall' = "unsubscribe"
  /\ UNCHANGED <<localFields, pending, speech, micVars, netVars, scaleVars>>

\* ------------------------------------------------------------ mic-button
MicInit ==
  /\ loudest = 0
  /\ prevImage = ""
  /\ decayingVolume = 0
  /\ image = ""
  /\ iconSet = FALSE

\* const micLevels = [...]
micLevels ==
  << "mic-level-1.png", "mic-level-1.png", "mic-level-2.png", "mic-level-3.png",
     "mic-level-4.png", "mic-level-5.png", "mic-level-7.png", "mic-level-7.png" >>

\* this.decayingVolume * this.smoothing, smoothing = 0.8
Decay(v) == IF v = NaN THEN NaN ELSE (8 * v) \div 10

\* volume < this.loudest * (num / 100)
BelowFraction(v, peak, num) ==
  v # NaN /\ peak # NaN /\ 100 * v < num * peak

\* the conditional chain of tick that selects the level
Level(v, peak) ==
  IF BelowFraction(v, peak, 10) THEN 1
  ELSE IF BelowFraction(v, peak, 20) THEN 2
  ELSE IF BelowFraction(v, peak, 45) THEN 3
  ELSE IF BelowFraction(v, peak, 60) THEN 4
  ELSE IF BelowFraction(v, peak, 80) THEN 5
  ELSE 7

\* mutant: the peak is not raised by a louder volume
MaxKeep(a, b) == a

\* Math.max(a, b): NaN as soon as one side is NaN
Max(a, b) == IF a = NaN \/ b = NaN THEN NaN ELSE IF a > b THEN a ELSE b

\* mutant: the icon is set on every tick, whatever the previous image
MicTickAlwaysSet(visible) ==
  LET attack == Lt(decayingVolume, lImmediateVolume)
      vol == IF attack THEN lImmediateVolume
             ELSE IF Lt(Decay(decayingVolume), ONE \div 1000) THEN 0
             ELSE Decay(decayingVolume)
      peak == IF attack THEN Max(loudest, vol) ELSE loudest
      level == Level(vol, peak)
      newimage == micLevels[level + 1]
  IN /\ subscribers' = IF visible THEN subscribe(subscribers, "mic-button")
                       ELSE unsubscribe(subscribers, "mic-button")
     /\ decayingVolume' = vol
     /\ loudest' = peak
     /\ prevImage' = newimage
     /\ image' = IF newimage # prevImage THEN newimage ELSE image
     /\ iconSet' = TRUE
     /\ lCall' = "mic-tick"
     /\ UNCHANGED <<localFields, pending, speech, netVars, scaleVars>>

\* mutant: the decayed envelope is never snapped to 0
MicTickNoSnap(visible) ==
  LET attack == Lt(decayingVolume, lImmediateVolume)
      vol == IF attack THEN lImmediateVolume
             ELSE Decay(decayingVolume)
      peak == IF attack THEN Max(loudest, vol) ELSE loudest
      level == Level(vol, peak)
      newimage == micLevels[level + 1]
  IN /\ subscribers' = IF visible THEN subscribe(subscribers, "mic-button")
                       ELSE unsubscribe(subscribers, "mic-button")
     /\ decayingVolume' = vol
     /\ loudest' = peak
     /\ prevImage' = newimage
     /\ image' = IF newimage # prevImage THEN newimage ELSE image
     /\ iconSet' = (newimage # prevImage)
     /\ lCall' = "mic-tick"
     /\ UNCHANGED <<localFields, pending, speech, netVars, scaleVars>>

\* mic-button tick(); `visible` is this.el.object3D.visible when it is called
MicTick(visible) ==
  LET attack == Lt(decayingVolume, lImmediateVolume)
      vol == IF attack THEN lImmediateVolume
             ELSE IF Lt(Decay(decayingVolume), ONE \div 1000) THEN 0
             ELSE Decay(decayingVolume)
      peak == IF attack THEN Max(loudest, vol) ELSE loudest
      level == Level(vol, peak)
      newimage == micLevels[level + 1]
  IN /\ subscribers' = IF visible THEN subscribe(subscribers, "mic-button")
                       ELSE unsubscribe(subscribers, "mic-button")
     /\ decayingVolume' = vol
     /\ loudest' = peak
     /\ prevImage' = newimage
     /\ image' = IF newimage # prevImage THEN newimage ELSE image
     /\ iconSet' = (newimage # prevImage)
     /\ lCall' = "mic-tick"
     /\ UNCHANGED <<localFields, pending, speech, netVars, scaleVars>>

LocalNext ==
  \/ \E adapter \in BOOLEAN : LocalTick(adapter)
  \/ \E got \in 0..1 : LocalResume(got)
  \/ \E ii \in Listeners \ {"mic-button"} : Subscribe(ii)
  \/ \E ii \in Listeners \ {"mic-button"} : Unsubscribe(ii)
  \/ \E visible \in BOOLEAN : MicTick(visible)

\* ------------------------------------------------------------ scale-audio-feedback
\* Scales are in fixed point as well: the integer SCALE_ONE stands for 1.0.
SCALE_ONE == 100

\* schema: minScale: { default: 1 }, maxScale: { default: 2 }
ScaleInit ==
  /\ minScale = SCALE_ONE
  /\ maxScale = 2 * SCALE_ONE
  /\ scale = Undefined

\* Math.min(a, b): NaN as soon as one side is NaN
Min(a, b) == IF a = NaN \/ b = NaN THEN NaN ELSE IF a < b THEN a ELSE b

\* mutant: the scale without its clamp to maxScale
getAudioFeedbackScaleNoClamp(dist, lo, hi, vol) ==
  IF vol = NaN THEN NaN
  ELSE lo + ((hi - lo) * vol * 8 * dist) \div (ONE * 10)

\* getAudioFeedbackScale(fromObject, toObject, minScale, maxScale, volume), with
\* dist the distance between the two objects: distance is dist / 10
getAudioFeedbackScale(dist, lo, hi, vol) ==
  IF vol = NaN THEN NaN
  ELSE Min(hi, lo + ((hi - lo) * vol * 8 * dist) \div (ONE * 10))

\* scale-audio-feedback tick(); `visible` is this.el.object3D.visible,
\* `hasAnalyser` whether the entity has a networked-audio-analyser, `dist` the
\* distance to the player camera
ScaleTick(visible, hasAnalyser, dist) ==
  /\ scale' = IF visible /\ hasAnalyser
              THEN getAudioFeedbackScale(dist, minScale, maxScale, volume)
              ELSE scale
  /\ UNCHANGED <<netVars, speech, localVars, micVars, minScale, maxScale>>

\* ------------------------------------------------------------ specifications
Init == NetInit /\ LocalInit /\ MicInit /\ ScaleInit /\ speech = 0

\* an avatar with networked-audio-analyser under the frame loop and the scheduler
Next == NetNext
Spec == Init /\ [][Next]_vars

\* the local analyser system and the mic button
SpecLocal == Init /\ [][LocalNext]_vars

\* a scene with both: the avatar's analyser and the local analyser have no
\* state in common, and a behaviour drives one of them, the other staying as
\* constructed
SceneNext ==
  \/ NetInit /\ LocalNext
  \/ LocalInit /\ MicInit /\ NetNext

SpecScene == Init /\ [][SceneNext]_vars

\* ------------------------------------------------------------ a source that speaks to a quiet entity
\* waveforms with an RMS at or above MIN_VOLUME_THRESHOLD
LoudWaveForms == AllWaveForms \ SilentWaveForms

\* the scheduler's call, the audio source producing samples above the noise
\* floor for as long as the entity is quiet
SchedulerWake ==
  /\ ~ran
  /\ ran' = TRUE
  /\ \E cb \in scheduled :
       \E data \in (IF avatarIsQuiet = "true" THEN LoudWaveForms ELSE WaveForms) :
         Invoke(cb, data)
  /\ call' = "scheduled"
  /\ UNCHANGED <<analyser, scheduled, removed, now, localVars, micVars, scaleVars>>

\* timestamps of frames that are more than a grace period apart
WakeTimes == {k * (DISABLE_GRACE_PERIOD_MS + 1) + 1 : k \in 0..MaxEpoch}

\* the frame loop keeps calling tick
FrameTick == \E t \in WakeTimes : Tick(t)

\* the entity before removal
WakeNext ==
  \/ SoundSourceSet
  \/ FrameTick
  \/ SchedulerWake

\* the frame loop runs for ever and the scheduler is fair: a callback it holds
\* is eventually invoked
SpecWake ==
  Init /\ [][WakeNext]_vars /\ WF_vars(FrameTick) /\ WF_vars(SchedulerWake)

\* ------------------------------------------------------------ one update on any buffer
\* sample bytes of the buffers handed to getVolume
BufferBytes == {0, 127, 128, 129, 130, 255}

RECURSIVE BuffersOfLen(_)
BuffersOfLen(n) ==
  IF n = 0 THEN {<< >>}
  ELSE {Append(b, x) : b \in BuffersOfLen(n - 1), x \in BufferBytes}

\* the buffers of at most MaxLen samples
Buffers == UNION {BuffersOfLen(n) : n \in 0..MaxLen}

\* an analyser bound to a buffer of any length, zero included:
\* this.levels = new Uint8Array(n)
VolumeInit ==
  /\ NetFresh
  /\ analyser = TRUE
  /\ levels \in {[i \in 1..n |-> 0] : n \in 0..MaxLen}
  /\ LocalInit
  /\ MicInit
  /\ ScaleInit
  /\ speech = 0

\* the first _updateAnalysis() on that buffer, filled by getByteTimeDomainData
Measure ==
  /\ ~didRead
  /\ \E data \in BuffersOfLen(Len(levels)) : UpdateAnalysis(Undefined, data)
  /\ call' = "scheduled"
  /\ UNCHANGED <<analyser, scheduled, removed, now, ran, localVars, micVars, scaleVars>>

SpecVolume == VolumeInit /\ [][Measure]_vars

\* ------------------------------------------------------------ the scale on any input
\* configured values of minScale and maxScale
Scales == {(k * SCALE_ONE) \div 2 : k \in 0..MaxScale}

\* waveforms of one sample value each: silence, speech, full scale
ScaleWaveForms == {[i \in 1..frequencyBinCount |-> x] : x \in {128, 130, 192, 255}}

\* an entity with any configuration, its analyser bound by sound-source-set
ScaleAnyInit ==
  /\ NetFresh
  /\ analyser = TRUE
  /\ levels = [i \in 1..frequencyBinCount |-> 0]
  /\ LocalInit
  /\ MicInit
  /\ speech = 0
  /\ minScale \in Scales
  /\ maxScale \in Scales
  /\ scale = Undefined

\* the first _updateAnalysis() of that entity, on any of these waveforms
ScaleMeasure ==
  /\ ~didRead
  /\ \E data \in ScaleWaveForms : UpdateAnalysis(Undefined, data)
  /\ call' = "scheduled"
  /\ UNCHANGED <<analyser, scheduled, removed, now, ran, localVars, micVars, scaleVars>>

\* distances between the entity and the player camera
Distances == {5 * k : k \in 0..MaxDistance}

ScaleNext ==
  \/ ScaleMeasure
  \/ \E visible \in BOOLEAN, hasAnalyser \in BOOLEAN, dist \in Distances :
       ScaleTick(visible, hasAnalyser, dist)

SpecScale == ScaleAnyInit /\ [][ScaleNext]_vars

\* ------------------------------------------------------------ claims

\* C1: on a timestamped update with the smoothed volume below the threshold and
\* a lastSeenVolume recorded, the entity becomes quiet whenever
\* t - lastSeenVolume >= DISABLE_GRACE_PERIOD_MS, exactly 10000 ms included.
C1_QuietAtGracePeriod ==
  [][(/\ call' = "tick"
      /\ didRead'
      /\ Lt(volume', DISABLE_AT_VOLUME_THRESHOLD)
      /\ lastSeenVolume # Undefined
      /\ now' - lastSeenVolume >= DISABLE_GRACE_PERIOD_MS)
     => avatarIsQuiet' = "true"]_vars

\* C2: avatarIsQuiet is true only if a lastSeenVolume was recorded and at least
\* DISABLE_GRACE_PERIOD_MS lies between it and the latest timestamp.
C2_QuietOnlyAfterGrace ==
  avatarIsQuiet = "true" =>
    /\ lastSeenVolume # Undefined
    /\ now - lastSeenVolume >= DISABLE_GRACE_PERIOD_MS

\* C2 witness: a tick analysed the entity and left it quiet.
C2_Witness == avatarIsQuiet = "true" /\ call = "tick" /\ didRead

\* C3: a call by the scheduler (no timestamp) never turns avatarIsQuiet true;
\* if it changes avatarIsQuiet at all, it sets it to false with the smoothed
\* volume at or above the threshold.
C3_BackgroundNeverQuiets ==
  [][call' = "scheduled" =>
       /\ (avatarIsQuiet' = "true" => avatarIsQuiet = "true")
       /\ (avatarIsQuiet' # avatarIsQuiet =>
             avatarIsQuiet' = "false" /\ ~Lt(volume', DISABLE_AT_VOLUME_THRESHOLD))]_vars

\* C3 witness: a scheduler call analysed an entity that is not quiet and has a
\* lastSeenVolume recorded, and found the volume below the threshold.
C3_Witness ==
  /\ call = "scheduled"
  /\ didRead
  /\ avatarIsQuiet = "false"
  /\ Lt(volume, DISABLE_AT_VOLUME_THRESHOLD)
  /\ Truthy(lastSeenVolume)

\* C4: after every timestamped update with the smoothed volume at or above the
\* threshold, lastSeenVolume is the timestamp passed and avatarIsQuiet is false.
C4_AboveThresholdRecordsT ==
  [][(/\ call' = "tick"
      /\ didRead'
      /\ ~Lt(volume', DISABLE_AT_VOLUME_THRESHOLD))
     => lastSeenVolume' = now' /\ avatarIsQuiet' = "false"]_vars

\* C5: without a recorded lastSeenVolume the entity is never quiet.
C5_NeverSeenNeverQuiet ==
  lastSeenVolume = Undefined => avatarIsQuiet # "true"

\* C5 witness: a tick later than the grace period analysed a silent entity that
\* has no lastSeenVolume.
C5_Witness ==
  /\ lastSeenVolume = Undefined
  /\ call = "tick"
  /\ didRead
  /\ Lt(volume, DISABLE_AT_VOLUME_THRESHOLD)
  /\ now > DISABLE_GRACE_PERIOD_MS

\* C6: after remove, the scheduler holds no callback of the component.
C6_RemovedUnscheduled ==
  removed => scheduled = {}

\* C7: a tick on a quiet entity changes none of volume, prevVolume,
\* immediateVolume, lastSeenVolume, avatarIsQuiet and does not read the waveform.
C7_QuietTickNoOp ==
  [][(call' = "tick" /\ avatarIsQuiet = "true") =>
       /\ UNCHANGED <<volume, prevVolume, immediateVolume, lastSeenVolume,
                      avatarIsQuiet, levels>>
       /\ ~didRead']_vars

\* C7 witness: a tick ran on a quiet entity with its analyser bound, and read
\* nothing.
C7_Witness ==
  call = "tick" /\ ~didRead /\ avatarIsQuiet = "true" /\ analyser

\* C8: in mic-button, while the peak volume (loudest) is 0, the level selected
\* is the quietest one, shown as mic-level-1.png.
C8_ZeroPeakQuietestLevel ==
  (lCall = "mic-tick" /\ loudest = 0) => image = "mic-level-1.png"

\* C9: an analyser update on a zero-length buffer leaves immediateVolume 0 and
\* volume a non-negative number.
C9_EmptyBufferIsZero ==
  (didRead /\ Len(levels) = 0) =>
    immediateVolume = 0 /\ volume # NaN /\ volume >= 0

\* C10: a call that finds no audio source (the networked analyser without
\* analyser; the local analyser without adapter, without subscribers, or
\* getting no stream) leaves volume, prevVolume and immediateVolume, and for the
\* networked analyser avatarIsQuiet and lastSeenVolume, as they were.
C10_UnboundUpdateFrozen ==
  [][/\ (~analyser /\ ((\E t \in Times : Tick(t)) \/ SchedulerRun)) =>
          UNCHANGED <<volume, prevVolume, immediateVolume, avatarIsQuiet, lastSeenVolume>>
     /\ (\/ LocalTick(FALSE)
         \/ Len(subscribers) = 0 /\ LocalTick(TRUE)
         \/ LocalResume(0)) =>
          UNCHANGED <<lVolume, lPrevVolume, lImmediateVolume>>]_vars

\* C10 witness: a tick of the local analyser ran without subscribers, with no
\* stream bound after it, and left volumes that are not 0.
C10_Witness ==
  /\ lCall = "tick"
  /\ Len(subscribers) = 0
  /\ lStream = 0
  /\ lAnalyser = 0
  /\ lVolume > 0
  /\ lPrevVolume > 0
  /\ lImmediateVolume > 0

\* positions of ii in the subscriber list
Positions(seq, ii) == {i \in 1..Len(seq) : seq[i] = ii}

\* C11: subscribe and unsubscribe are idempotent set operations: the list never
\* holds a listener twice; a subscribe of ii (by the mic button when visible, or
\* by another listener) leaves ii a member, an unsubscribe leaves it a
\* non-member, and neither changes the membership of any other listener;
\* subscribing a member or unsubscribing a non-member leaves the list as it
\* was; no other call changes the list.
C11_SubscribersAreASet ==
  [][/\ \A ii \in Listeners : Cardinality(Positions(subscribers', ii)) <= 1
     /\ \A ii \in Listeners :
          /\ (Subscribe(ii) \/ (ii = "mic-button" /\ MicTick(TRUE))) =>
                /\ Positions(subscribers', ii) # {}
                /\ \A jj \in Listeners \ {ii} :
                      (Positions(subscribers', jj) = {}) = (Positions(subscribers, jj) = {})
                /\ (Positions(subscribers, ii) # {} => subscribers' = subscribers)
          /\ (Unsubscribe(ii) \/ (ii = "mic-button" /\ MicTick(FALSE))) =>
                /\ Positions(subscribers', ii) = {}
                /\ \A jj \in Listeners \ {ii} :
                      (Positions(subscribers', jj) = {}) = (Positions(subscribers, jj) = {})
                /\ (Positions(subscribers, ii) = {} => subscribers' = subscribers)
     /\ lCall' \in {"tick", "resume"} => subscribers' = subscribers]_vars

\* C11 witness: the camera unsubscribed while the mic button stays subscribed.
C11_Witness ==
  lCall = "unsubscribe" /\ subscribers = <<"mic-button">>

\* C12: on a tick of the mic button after the first, the icon-button attribute
\* is set exactly when the level selected on this tick differs from the level
\* selected on the previous tick; with the same level no update is issued and
\* the image stays.
C12_IconSetOnlyOnLevelChange ==
  [][(lCall' = "mic-tick" /\ prevImage # "") =>
       /\ iconSet' = (Level(decayingVolume', loudest') # Level(decayingVolume, loudest))
       /\ (~iconSet' => image' = image)]_vars

\* C12 witness: a tick of the mic button selected the level of the tick before
\* it, a level other than the loudest, and set nothing.
C12_Witness ==
  /\ lCall = "mic-tick"
  /\ ~iconSet
  /\ loudest > 0
  /\ image \in {"mic-level-1.png", "mic-level-5.png"}

\* C13: the decaying envelope never exceeds the peak volume observed.
C13_EnvelopeAtMostPeak ==
  /\ decayingVolume # NaN
  /\ loudest # NaN
  /\ decayingVolume <= loudest

\* C13 witness: the envelope has decayed below a peak it reached before.
C13_Witness ==
  lCall = "mic-tick" /\ 0 < decayingVolume /\ decayingVolume < loudest

RECURSIVE DecayTicks(_)
\* the ticks without input after which an envelope v is 0, by the rule
\* "multiply by 0.8, snap to 0 below 0.001"
DecayTicks(v) ==
  IF v <= 0 THEN 0
  ELSE 1 + DecayTicks(IF 8 * v < ONE \div 100 THEN 0 ELSE (8 * v) \div 10)

\* C14: on a tick that sees the immediate volume 0 the envelope becomes 0.8
\* times what it was, and exactly 0 once that product is below 0.001; so it is
\* 0 after at most 31 such ticks (0.8^31 < 0.001, the envelope being at most
\* 1), one tick fewer remaining after each, and an envelope of 0 stays 0.
C14_SilentDecayReachesZero ==
  [][(lCall' = "mic-tick" /\ lImmediateVolume = 0) =>
       /\ decayingVolume' = IF 8 * decayingVolume < ONE \div 100 THEN 0
                             ELSE (8 * decayingVolume) \div 10
       /\ 10 * decayingVolume' <= 8 * decayingVolume
       /\ DecayTicks(decayingVolume) <= 31
       /\ (decayingVolume > 0 => DecayTicks(decayingVolume') = DecayTicks(decayingVolume) - 1)
       /\ (decayingVolume = 0 => decayingVolume' = 0)]_vars

\* C14 witness: after a peak, ticks without input have brought the envelope to 0.
C14_Witness ==
  /\ lCall = "mic-tick"
  /\ lImmediateVolume = 0
  /\ loudest > 0
  /\ decayingVolume = 0

\* C15: getVolume is 0 exactly when the RMS of the normalised samples is below
\* 0.01, that is when the mean of the squares of (sample - 128) is below
\* 0.0001 * 128 * 128, and it is the RMS otherwise (NaN, which is below
\* nothing, for a buffer without samples); so for a non-empty buffer it is 0
\* or at least MIN_VOLUME_THRESHOLD, and samples that are all 128, however
\* many, give 0.
C15_NoiseFloorClamp ==
  didRead =>
    /\ (immediateVolume = 0) =
          (Len(levels) > 0 /\ 10000 * SumSquares(levels, 1) < 16384 * Len(levels))
    /\ (immediateVolume # 0 => immediateVolume = Rms(levels))
    /\ (Len(levels) > 0 =>
          /\ immediateVolume # NaN
          /\ immediateVolume = 0 \/ immediateVolume >= MIN_VOLUME_THRESHOLD
          /\ ((\A i \in 1..Len(levels) : levels[i] = 128) => immediateVolume = 0))

\* C15 witness: a buffer with an RMS strictly between 0 and the noise floor was
\* measured as 0.
C15_Witness ==
  /\ didRead
  /\ Len(levels) > 0
  /\ \E i \in 1..Len(levels) : levels[i] # 128
  /\ immediateVolume = 0

\* C16 as stated: for every configured minScale and maxScale the scale set by
\* tick is minScale when the volume is 0, and never below minScale nor above
\* maxScale.
C16_ScaleWithinAnyBounds ==
  scale # Undefined =>
    /\ scale # NaN
    /\ (volume = 0 => scale = minScale)
    /\ minScale <= scale
    /\ scale <= maxScale

\* C16 amended: the same for every configuration with minScale <= maxScale.
C16_ScaleWithinOrderedBounds ==
  (scale # Undefined /\ minScale <= maxScale) =>
    /\ scale # NaN
    /\ (volume = 0 => scale = minScale)
    /\ minScale <= scale
    /\ scale <= maxScale

\* C16 witness: with minScale < maxScale, tick set the scale to maxScale from a
\* volume and a distance that the formula alone would take above it.
C16_Witness ==
  /\ scale # Undefined
  /\ minScale < maxScale
  /\ scale = maxScale
  /\ \E dist \in Distances :
       getAudioFeedbackScaleNoClamp(dist, minScale, maxScale, volume) > maxScale

\* C17: a call of the registered callback by the scheduler on an entity that is
\* not quiet changes none of volume, prevVolume, immediateVolume, avatarIsQuiet
\* and reads no waveform.
C17_ScheduledOnlyWhileQuiet ==
  [][(call' = "scheduled" /\ avatarIsQuiet # "true") =>
       /\ UNCHANGED <<volume, prevVolume, immediateVolume, avatarIsQuiet>>
       /\ ~didRead']_vars

\* C18: the entity is quiet only if DISABLE_GRACE_PERIOD_MS or more have
\* elapsed since the latest update, on either path, that found the smoothed
\* volume at or above the threshold.
C18_QuietOnlyAfterGraceFromAnyPath ==
  (avatarIsQuiet = "true" /\ seenAt # Undefined) =>
    now - seenAt >= DISABLE_GRACE_PERIOD_MS

\* C18 witness: a scheduler call has just made a quiet entity active again,
\* with the volume at or above the threshold and a lastSeenVolume older than
\* the grace period.
C18_Witness ==
  /\ call = "scheduled"
  /\ avatarIsQuiet = "false"
  /\ ~Lt(volume, DISABLE_AT_VOLUME_THRESHOLD)
  /\ seenAt = now
  /\ Truthy(lastSeenVolume)
  /\ lastSeenVolume < now - DISABLE_GRACE_PERIOD_MS

\* C19: the tick of the local analyser is atomic: at most one acquisition of
\* the media stream is in flight; an acquisition that completes binds a stream
\* and creates an analyser only when none is bound; and one that completes
\* while there is no subscriber leaves stream and analyser released.
C19_TickAtomic ==
  [][/\ pending' <= 1
     /\ (lCall' = "resume" /\ lStream' # 0) => (lStream = 0 /\ lAnalyser = 0)
     /\ (lCall' = "resume" /\ Len(subscribers) = 0) =>
          (lStream' = 0 /\ lAnalyser' = 0)]_vars

\* C20: under a fair scheduler, a quiet entity whose source keeps producing
\* samples above the noise floor becomes active again, and then a tick analyses
\* it again.
C20_QuietEventuallyActive ==
  /\ (avatarIsQuiet = "true") ~> (avatarIsQuiet = "false")
  /\ (avatarIsQuiet = "true") ~> (avatarIsQuiet = "false" /\ call = "tick" /\ didRead)

\* C20 witness: a scheduler call read a waveform above the noise floor on a
\* quiet entity and made it active.
C20_Witness ==
  /\ call = "scheduled"
  /\ didRead
  /\ avatarIsQuiet = "false"
  /\ immediateVolume >= MIN_VOLUME_THRESHOLD
  /\ Truthy(lastSeenVolume)
  /\ lastSeenVolume < now - DISABLE_GRACE_PERIOD_MS

====
